---- MODULE Spec2Model ----
(***************************************************************************)
(* A model of the scraping and matching pipeline of ai-shopping-agent:     *)
(*   - parse_products of the Sezane and Arket scrapers (ParseSpec),        *)
(*   - scrape_new_arrivals of the static and browser variants (ScrapeSpec),*)
(*   - ProductMatcher.match_products and its worker pool (Spec),           *)
(*   - StyleAnalyzer.analyze_style_images (AnalyzeSpec) and the            *)
(*     StyleProfile round trips (ProfileSpec),                             *)
(*   - scrape_all and the construction of ArketScraper (ShopSpec),         *)
(*   - the product file and the products table (PersistSpec).              *)
(* Strings are sequences of tokens; a token is a run of characters that    *)
(* the code never looks inside, and "#", "?" are tokens of their own.      *)
(***************************************************************************)
EXTENDS Integers, Sequences, FiniteSets, TLC

VARIABLES
    \* ---- parse_products (sezane.py, arket.py)
    retailer,        \* which scraper class runs: "Sezane" or "Arket"
    page,            \* the anchors of the markup, in document order
    product_links,   \* soup.select(...) result
    pos,             \* index of the next link of the for loop
    seen_urls,       \* set of base urls already met
    products,        \* the list being built
    ppc,             \* position in parse_products
    \* ---- scrape_new_arrivals (base.py, browser.py, arket.py)
    variant,         \* "static" (BaseScraper) or "browser" (BrowserScraper)
    spc,             \* position in scrape_new_arrivals
    playwright,      \* "unset" | "started" | "stopped"   (self.playwright)
    browser,         \* "None" | "open" | "closed"        (self.browser)
    context,         \* "None" | "open" | "closed"        (self.context)
    pageh,           \* "None" | "open" | "closed"        (local page of fetch_page)
    html,            \* "unset" | "None" | "empty" | "markup"
    debug,           \* the debug flag
    outcome,         \* "running" | "returned" | "raised"
    closed_log,      \* the release steps that completed, in order
    release_tried,   \* the release steps _close_browser began, in order
    \* ---- match_products (product_matcher.py)
    inputs,          \* the products argument: a list of Products
    min_score, max_workers, limit,
    products_with_images,   \* indices into inputs after filtering and truncation
    mpc,             \* position of the calling thread in match_products
    task,            \* task[i]: state of the future submitted for products_with_images[i]
    future_result,   \* future_result[i]: what match_product returned ("None" or a MatchResult)
    results,         \* the results list of the caller
    results0,        \* the results list the same completions give with min_score = 0
    failure,         \* failure[i]: "none", or which call of task i failed: "fetch" | "model"
    self_profile,    \* self.profile: the StyleProfile the matcher was built with
    fetches,         \* fetches[i]: image fetches issued for input product i
    image_data,      \* image_data[i]: the media type _fetch_image gave task i,
                     \* while match_product holds it
    model_calls,     \* model_calls[i]: model calls issued for input product i
    \* ---- analyze_style_images, save_profile, load_profile (style_analyzer.py)
    image_paths,     \* the image_paths argument: what each path names
    apc,             \* position in analyze_style_images, or in the profile round trip
    content,         \* the content list of the request being built
    requests,        \* the contents of the model requests made so far
    response,        \* what messages.create gave
    data,            \* what json.loads gave for the cleaned response text
    bare,            \* what the same cleaning and json.loads give for the JSON
                     \* text of the response without its wrapping
    aoutcome,        \* "running" | "returned" | the exception that left the call
    profile,         \* the StyleProfile returned, or the one to save
    restored,        \* StyleProfile.from_dict(profile.to_dict())
    saved,           \* the file save_profile wrote
    loaded,          \* what load_profile read back
    \* ---- scrape_all (shop.py) and the construction of the scrapers
    installed,       \* whether the playwright package can be imported
    PLAYWRIGHT_AVAILABLE,   \* the global of browser.py: "unset" | "True" | "False"
    BROWSER_AVAILABLE,      \* the global of arket.py: "unset" | "True" | "False"
    shpc,            \* position of the caller
    arket,           \* "unset", or the ArketScraper instance
    all_products,    \* the list scrape_all builds
    arket_products,  \* what arket.scrape_new_arrivals() returned
    shop_outcome,    \* "running" | "returned" | the exception that left scrape_all
    error_message,   \* the message of that exception
    \* ---- save_products (shop.py), save_products (backend/models.py)
    store,           \* which store the run saves to: "file" | "table"
    json_file,       \* what latest_arrivals.json holds
    json_batch,      \* the product list of the most recent save to the file
    table,           \* the rows of the products table
    db_batch,        \* the product dicts of the most recent committed save
    db_ts            \* the scraped_at of that save

parseVars  == <<retailer, page, product_links, pos, seen_urls, products, ppc>>
scrapeVars == <<variant, spc, playwright, browser, context, pageh, html, debug,
                outcome, closed_log, release_tried>>
matchVars  == <<inputs, min_score, max_workers, limit, products_with_images, mpc,
                task, future_result, failure, results, results0, fetches,
                image_data, model_calls, self_profile>>
analyzeVars == <<image_paths, apc, content, requests, response, data, bare,
                 aoutcome, profile, restored, saved, loaded>>
shopVars == <<installed, PLAYWRIGHT_AVAILABLE, BROWSER_AVAILABLE, shpc, arket,
              all_products, arket_products, shop_outcome, error_message>>
persistVars == <<store, json_file, json_batch, table, db_batch, db_ts>>
vars == <<parseVars, scrapeVars, matchVars, analyzeVars, shopVars, persistVars>>

\* each component's steps leave the other components alone
ParseOnly   == UNCHANGED <<scrapeVars, matchVars, analyzeVars, shopVars, persistVars>>
ScrapeOnly  == UNCHANGED <<parseVars, matchVars, analyzeVars, shopVars, persistVars>>
MatchOnly   == UNCHANGED <<parseVars, scrapeVars, analyzeVars, shopVars, persistVars>>
AnalyzeOnly == UNCHANGED <<parseVars, scrapeVars, matchVars, shopVars, persistVars>>
ShopOnly    == UNCHANGED <<parseVars, scrapeVars, matchVars, analyzeVars, persistVars>>
PersistOnly == UNCHANGED <<parseVars, scrapeVars, matchVars, analyzeVars, shopVars>>

(***************************************************************************)
(* Bounds                                                                  *)
(***************************************************************************)
MaxAnchors  == 3
MaxProducts == 3
MaxWorkers  == 2
\* longest image_paths list of present and missing paths
MaxImages   == 11
\* longest image_paths list that also holds unopenable paths
MaxMixed    == 2
\* longest product batch handed to a save
MaxBatch    == 2

\* image_paths[:10]
ImageCap == 10

(***************************************************************************)
(* Strings                                                                 *)
(***************************************************************************)
\* s.split(sep)[0]: the part of s before the first occurrence of sep
SplitFirst(s, sep) ==
    IF \E i \in 1..Len(s) : s[i] = sep
    THEN SubSeq(s, 1, (CHOOSE i \in 1..Len(s) :
                          s[i] = sep /\ \A j \in 1..(i-1) : s[j] # sep) - 1)
    ELSE s

Contains(s, tok) == \E i \in 1..Len(s) : s[i] = tok

\* BASE_URL of the running scraper; the token starts with "http"
BASE_URL == "https://retailer"

\* href.startswith("http")
StartsWithHttp(s) == Len(s) > 0 /\ s[1] = BASE_URL

\* tokens that hold "/product/" (and so "/product" too)
ProductSegs == {"/product/a", "/product/b"}

\* "/product/" in href (Sezane) ; "/p/" in href or "/product" in href (Arket)
HasProductPattern(href) == \E i \in 1..Len(href) : href[i] \in ProductSegs

\* the hrefs a page may hold
Hrefs ==
    { <<"/product/a">>,
      <<"/product/a", "#", "s">>,
      <<"/product/a", "#", "t">>,
      <<"/product/a", "?", "q">>,
      <<"/product/a", "?", "q", "#", "s">>,
      <<"/product/b">>,
      <<BASE_URL, "/product/a">>,
      <<"/other">> }

\* an anchor: its href and whether _parse_product_link raises on it
Anchors == [href : Hrefs, parse : {"ok", "raise"}]

Pages == UNION { [1..n -> Anchors] : n \in 0..MaxAnchors }

(***************************************************************************)
(* parse_products                                                          *)
(***************************************************************************)
\* full_url = href if href.startswith("http") else f"{self.BASE_URL}{href}"
FullUrl(href) == IF StartsWithHttp(href) THEN href ELSE <<BASE_URL>> \o href

\* the separator each scraper splits on
Sep(r) == IF r = "Sezane" THEN "#" ELSE "?"

BaseUrlKeepAll(r, full_url) == full_url

\* base_url = full_url.split('#')[0] (Sezane) ; full_url.split('?')[0] (Arket)
BaseUrl(r, full_url) == SplitFirst(full_url, Sep(r))

\* soup.select('a[href*="/product/"]') ;
\* soup.select('a[href*="/p/"], a[href*="/product"]') with its fallback
\* soup.select('[class*="product"] a[href]').  The result keeps, for each
\* link, the index of its anchor in the page.
SelectLinks(r, pg) ==
    LET idx == { i \in 1..Len(pg) : HasProductPattern(pg[i].href) }
        all == 1..Len(pg)
        pick == IF r = "Arket" /\ idx = {} THEN all ELSE idx
        RECURSIVE Asc(_, _)
        Asc(i, acc) == IF i > Len(pg) THEN acc
                       ELSE Asc(i + 1, IF i \in pick THEN Append(acc, i) ELSE acc)
    IN Asc(1, <<>>)

ParseInit ==
    /\ retailer \in {"Sezane", "Arket"}
    /\ page \in Pages
    /\ product_links = <<>>
    /\ pos = 0
    /\ seen_urls = {}
    /\ products = <<>>
    /\ ppc = "select"

ParseIdle ==
    /\ retailer = "Sezane"
    /\ page = <<>>
    /\ product_links = <<>>
    /\ pos = 0
    /\ seen_urls = {}
    /\ products = <<>>
    /\ ppc = "idle"

\* lines 17-23 / 27-36: build the soup and select the links
Select ==
    /\ ppc = "select"
    /\ product_links' = SelectLinks(retailer, page)
    /\ pos' = 1
    /\ ppc' = "loop"
    /\ UNCHANGED <<retailer, page, seen_urls, products>>
    /\ ParseOnly

CurLink == page[product_links[pos]]

InLoop == ppc = "loop" /\ pos <= Len(product_links)

\* if not href or "/product/" not in href: continue
SkipNoPattern ==
    /\ InLoop
    /\ ~HasProductPattern(CurLink.href)
    /\ pos' = pos + 1
    /\ UNCHANGED <<retailer, page, product_links, seen_urls, products, ppc>>
    /\ ParseOnly

AlreadySeenNever(base_url) == FALSE

\* the seen_urls test: if base_url in seen_urls
AlreadySeen(base_url) == base_url \in seen_urls

\* if base_url in seen_urls: continue
SkipSeen ==
    /\ InLoop
    /\ HasProductPattern(CurLink.href)
    /\ AlreadySeen(BaseUrl(retailer, FullUrl(CurLink.href)))
    /\ pos' = pos + 1
    /\ UNCHANGED <<retailer, page, product_links, seen_urls, products, ppc>>
    /\ ParseOnly

\* Product(..., url=base_url, retailer=...): the fields the claims read, and
\* the anchor the product was built from
MakeProduct(r, base_url, anchor) ==
    [url |-> base_url, retailer |-> r, anchor |-> anchor]

\* seen_urls.add(base_url); product = self._parse_product_link(...);
\* if product: products.append(product)
ParseLinkOk ==
    /\ InLoop
    /\ HasProductPattern(CurLink.href)
    /\ LET base_url == BaseUrl(retailer, FullUrl(CurLink.href)) IN
        /\ ~AlreadySeen(base_url)
        /\ CurLink.parse = "ok"
        /\ seen_urls' = seen_urls \cup {base_url}
        /\ products' = Append(products,
                              MakeProduct(retailer, base_url, product_links[pos]))
    /\ pos' = pos + 1
    /\ UNCHANGED <<retailer, page, product_links, ppc>>
    /\ ParseOnly

AfterErrorAbort(n) == Len(product_links) + 1

\* except Exception as e: print(...); continue -- the loop goes on with the
\* next link
AfterError(n) == n + 1

SeenAfterErrorRolledBack(seen, base_url) == seen

\* seen_urls.add(base_url) has run when _parse_product_link raises, and the
\* handler does not take it back
SeenAfterError(seen, base_url) == seen \cup {base_url}

\* seen_urls.add(base_url); _parse_product_link raises;
\* except Exception: print; continue
ParseLinkRaise ==
    /\ InLoop
    /\ HasProductPattern(CurLink.href)
    /\ LET base_url == BaseUrl(retailer, FullUrl(CurLink.href)) IN
        /\ ~AlreadySeen(base_url)
        /\ CurLink.parse = "raise"
        /\ seen_urls' = SeenAfterError(seen_urls, base_url)
    /\ pos' = AfterError(pos)
    /\ UNCHANGED <<retailer, page, product_links, products, ppc>>
    /\ ParseOnly

\* return products
ParseReturn ==
    /\ ppc = "loop"
    /\ pos > Len(product_links)
    /\ ppc' = "done"
    /\ UNCHANGED <<retailer, page, product_links, pos, seen_urls, products>>
    /\ ParseOnly

ParseNext ==
    \/ Select
    \/ SkipNoPattern
    \/ SkipSeen
    \/ ParseLinkOk
    \/ ParseLinkRaise
    \/ ParseReturn

(***************************************************************************)
(* scrape_new_arrivals: static variant (base.py) and browser variant       *)
(* (browser.py, reached through ArketScraper.scrape_new_arrivals).         *)
(* Every awaited Playwright call and every I/O call either completes or    *)
(* raises; which one is the environment's choice.                          *)
(***************************************************************************)
ScrapeInit ==
    /\ variant \in {"static", "browser"}
    /\ debug \in BOOLEAN
    /\ spc = "start"
    /\ playwright = "unset"
    /\ browser = "None"
    /\ context = "None"
    /\ pageh = "None"
    /\ html = "unset"
    /\ outcome = "running"
    /\ closed_log = <<>>
    /\ release_tried = <<>>

ScrapeIdle ==
    /\ variant = "static"
    /\ debug = FALSE
    /\ spc = "idle"
    /\ playwright = "unset"
    /\ browser = "None"
    /\ context = "None"
    /\ pageh = "None"
    /\ html = "unset"
    /\ outcome = "running"
    /\ closed_log = <<>>
    /\ release_tried = <<>>

\* an exception leaves the call: the frame is gone, the fields stay as they are
Propagate ==
    /\ outcome' = "raised"
    /\ spc' = "end"

\* BaseScraper.fetch_page: response.text, or None on httpx.HTTPError
StaticFetch ==
    /\ spc = "start" /\ variant = "static"
    /\ html' \in {"markup", "empty", "None"}
    /\ spc' = "static_after_fetch"
    /\ UNCHANGED <<variant, debug, playwright, browser, context, pageh, outcome, closed_log, release_tried>>
    /\ ScrapeOnly

\* BaseScraper.scrape_new_arrivals: if html: return self.parse_products(html); return []
StaticReturn ==
    /\ spc = "static_after_fetch"
    /\ outcome' = "returned"
    /\ spc' = "end"
    /\ UNCHANGED <<variant, debug, playwright, browser, context, pageh, html, closed_log, release_tried>>
    /\ ScrapeOnly

\* _init_browser: self.playwright = await async_playwright().start()
InitPlaywright ==
    /\ spc = "start" /\ variant = "browser"
    /\ \E ok \in BOOLEAN :
        IF ok THEN /\ playwright' = "started"
                   /\ spc' = "launch"
                   /\ UNCHANGED outcome
              ELSE /\ Propagate
                   /\ UNCHANGED playwright
    /\ UNCHANGED <<variant, debug, browser, context, pageh, html, closed_log, release_tried>>
    /\ ScrapeOnly

\* _init_browser: self.browser = await self.playwright.chromium.launch(headless=True)
InitLaunch ==
    /\ spc = "launch"
    /\ \E ok \in BOOLEAN :
        IF ok THEN /\ browser' = "open"
                   /\ spc' = "new_context"
                   /\ UNCHANGED outcome
              ELSE /\ Propagate
                   /\ UNCHANGED browser
    /\ UNCHANGED <<variant, debug, playwright, context, pageh, html, closed_log, release_tried>>
    /\ ScrapeOnly

\* _init_browser: self.context = await self.browser.new_context(...)
\* On success control enters the try block of scrape_new_arrivals_async.
InitContext ==
    /\ spc = "new_context"
    /\ \E ok \in BOOLEAN :
        IF ok THEN /\ context' = "open"
                   /\ spc' = "new_page"
                   /\ UNCHANGED outcome
              ELSE /\ Propagate
                   /\ UNCHANGED context
    /\ UNCHANGED <<variant, debug, playwright, browser, pageh, html, closed_log, release_tried>>
    /\ ScrapeOnly

\* fetch_page: page = await self.context.new_page()   (except Exception: return None)
NewPage ==
    /\ spc = "new_page"
    /\ \E ok \in BOOLEAN :
        IF ok THEN /\ pageh' = "open"
                   /\ spc' = "goto"
                   /\ UNCHANGED html
              ELSE /\ html' = "None"
                   /\ spc' = "after_fetch"
                   /\ UNCHANGED pageh
    /\ UNCHANGED <<variant, debug, playwright, browser, context, outcome, closed_log, release_tried>>
    /\ ScrapeOnly

\* fetch_page: page.goto, the swallowed wait_for_selector, _scroll_page,
\* html = await page.content()   (except Exception: return None)
Goto ==
    /\ spc = "goto"
    /\ \E res \in {"markup", "empty", "raise"} :
        IF res = "raise" THEN /\ html' = "None"
                              /\ spc' = "after_fetch"
                         ELSE /\ html' = res
                              /\ spc' = "page_close"
    /\ UNCHANGED <<variant, debug, playwright, browser, context, pageh, outcome, closed_log, release_tried>>
    /\ ScrapeOnly

\* fetch_page: await page.close(); return html   (except Exception: return None)
PageClose ==
    /\ spc = "page_close"
    /\ \E ok \in BOOLEAN :
        IF ok THEN /\ pageh' = "closed"
                   /\ UNCHANGED html
              ELSE /\ html' = "None"
                   /\ UNCHANGED pageh
    /\ spc' = "after_fetch"
    /\ UNCHANGED <<variant, debug, playwright, browser, context, outcome, closed_log, release_tried>>
    /\ ScrapeOnly

\* if html: truthiness of Optional[str]
Truthy(h) == h = "markup"

\* scrape_new_arrivals_async lines 88-96: the debug dump (open() may raise),
\* return self.parse_products(html), or return [].  Either way the finally
\* block runs next; outcome keeps what the try block decided.
AfterFetch ==
    /\ spc = "after_fetch"
    /\ IF Truthy(html) /\ debug
       THEN \E ok \in BOOLEAN : outcome' = IF ok THEN "returned" ELSE "raised"
       ELSE outcome' = "returned"
    /\ spc' = "close_context"
    /\ UNCHANGED <<variant, debug, playwright, browser, context, pageh, html, closed_log, release_tried>>
    /\ ScrapeOnly

\* _close_browser: if self.context: await self.context.close()
CloseContext ==
    /\ spc = "close_context"
    /\ IF context = "None"
       THEN /\ spc' = "close_browser"
            /\ UNCHANGED <<context, pageh, outcome, closed_log, release_tried>>
       ELSE /\ release_tried' = Append(release_tried, "context")
            /\ \E ok \in BOOLEAN :
                IF ok THEN /\ context' = "closed"
                           /\ pageh' = IF pageh = "open" THEN "closed" ELSE pageh
                           /\ closed_log' = Append(closed_log, "context")
                           /\ spc' = "close_browser"
                           /\ UNCHANGED outcome
                      ELSE /\ Propagate
                           /\ UNCHANGED <<context, pageh, closed_log>>
    /\ UNCHANGED <<variant, debug, playwright, browser, html>>
    /\ ScrapeOnly

\* _close_browser: if self.browser: await self.browser.close()
CloseBrowser ==
    /\ spc = "close_browser"
    /\ IF browser = "None"
       THEN /\ spc' = "stop_playwright"
            /\ UNCHANGED <<browser, outcome, closed_log, release_tried>>
       ELSE /\ release_tried' = Append(release_tried, "browser")
            /\ \E ok \in BOOLEAN :
                IF ok THEN /\ browser' = "closed"
                           /\ closed_log' = Append(closed_log, "browser")
                           /\ spc' = "stop_playwright"
                           /\ UNCHANGED outcome
                      ELSE /\ Propagate
                           /\ UNCHANGED <<browser, closed_log>>
    /\ UNCHANGED <<variant, debug, playwright, context, pageh, html>>
    /\ ScrapeOnly

\* _close_browser: if hasattr(self, 'playwright'): await self.playwright.stop()
\* then the finally block ends: the pending return or exception leaves the call
StopPlaywright ==
    /\ spc = "stop_playwright"
    /\ IF playwright = "unset"
       THEN /\ spc' = "end"
            /\ UNCHANGED <<playwright, outcome, closed_log, release_tried>>
       ELSE /\ release_tried' = Append(release_tried, "playwright")
            /\ \E ok \in BOOLEAN :
                IF ok THEN /\ playwright' = "stopped"
                           /\ closed_log' = Append(closed_log, "playwright")
                           /\ spc' = "end"
                           /\ UNCHANGED outcome
                      ELSE /\ Propagate
                           /\ UNCHANGED <<playwright, closed_log>>
    /\ UNCHANGED <<variant, debug, browser, context, pageh, html>>
    /\ ScrapeOnly

ScrapeNext ==
    \/ StaticFetch
    \/ StaticReturn
    \/ InitPlaywright
    \/ InitLaunch
    \/ InitContext
    \/ NewPage
    \/ Goto
    \/ PageClose
    \/ AfterFetch
    \/ CloseContext
    \/ CloseBrowser
    \/ StopPlaywright

(***************************************************************************)
(* ProductMatcher.match_products                                           *)
(***************************************************************************)
\* a Product of the input list: the field the matcher branches on
ProductInputs == [image_url : {"", "img"}]

InputLists == UNION { [1..n -> ProductInputs] : n \in 0..MaxProducts }

\* the limit argument: None, or an integer
Limits == {[isNone |-> TRUE, n |-> 0]} \cup {[isNone |-> FALSE, n |-> k] : k \in 0..2}

\* the min_score argument
MinScores == {-2, 0, 6}

\* what the model call ends with: an API error, text that is no JSON, JSON
\* that is no object, an object without "score", an object whose score is a
\* string, or an object with an integer score (the model is asked for 1-10
\* and nothing checks what it gives)
\* "no_score" is the object {"reasoning": ...}: of the four keys it holds
\* that one only.
ModelResponses ==
    {[kind |-> k, score |-> 0] :
        k \in {"api_error", "bad_json", "not_object", "no_score", "str_score"}}
    \cup {[kind |-> "object", score |-> s] : s \in {-1, 7}}

\* the keys MatchResult is built from
ResultKeys == {"score", "reasoning", "style_notes", "suggested_pairings"}

\* the keys of the JSON object the model answered
ResponseKeys(resp) ==
    IF resp.kind = "no_score" THEN {"reasoning"} ELSE ResultKeys

ScoreOrOne(resp) == IF "score" \in ResponseKeys(resp) THEN resp.score ELSE 1

\* result.get("score", 0)
Score(resp) == IF "score" \in ResponseKeys(resp) THEN resp.score ELSE 0

\* result.get("reasoning", ""), result.get("style_notes", ""): the text of the
\* object, or the empty string
GetText(resp, key) == IF key \in ResponseKeys(resp) THEN "text" ELSE ""

\* result.get("suggested_pairings", []): the list of the object, or []
GetList(resp, key) == IF key \in ResponseKeys(resp) THEN <<"pairing">> ELSE <<>>

\* what fetching the image ends with
\* "image": a content-type header of image/png with a parameter;
\* "no_content_type": a response without the header; "non_image": text/html
FetchOutcomes == {"image", "no_content_type", "network_error", "non_image"}

\* the content-type header of the response
Header(res) ==
    CASE res = "image" -> <<"image/", "png", ";", "q=1">>
      [] res = "non_image" -> <<"text/", "html">>
      [] OTHER -> <<>>

\* content_type = response.headers.get("content-type", "image/jpeg");
\* if ";" in content_type: content_type = content_type.split(";")[0]
ContentType(res) ==
    IF res = "no_content_type" THEN <<"image/", "jpeg">> ELSE SplitFirst(Header(res), ";")

IsImageAlways(content_type) == TRUE

\* content_type.startswith("image/")
IsImage(content_type) == Len(content_type) > 0 /\ content_type[1] = "image/"

\* whether _fetch_image returns (data, content_type) rather than None
Fetched(res) == res # "network_error" /\ IsImage(ContentType(res))

None == [kind |-> "None"]

\* MatchResult(product=product, score=result.get("score", 0), ...)
\* comparable: whether score is a number (an int/float compares with min_score)
\* keys: the keys the model's object held (kept for the properties only)
MatchResult(p, resp) ==
    [kind |-> "MatchResult", product |-> p,
     score |-> Score(resp),
     reasoning |-> GetText(resp, "reasoning"),
     style_notes |-> GetText(resp, "style_notes"),
     suggested_pairings |-> GetList(resp, "suggested_pairings"),
     comparable |-> resp.kind # "str_score",
     keys |-> ResponseKeys(resp)]

\* lines 139-164 of match_product: the try block around the model call
ParseResponse(p, resp) ==
    IF resp.kind \in {"api_error", "bad_json", "not_object"}
    THEN None
    ELSE MatchResult(p, resp)

\* truthiness of a str: if product.image_url / if p.image_url
NonEmptyAlways(str) == TRUE

NonEmpty(str) == str # ""

\* [p for p in products if p.image_url], as indices into the input list
RECURSIVE FilterImages(_, _)
FilterImages(lst, i) ==
    IF i > Len(lst) THEN <<>>
    ELSE (IF NonEmpty(lst[i].image_url) THEN <<i>> ELSE <<>>)
         \o FilterImages(lst, i + 1)

Min(a, b) == IF a < b THEN a ELSE b

\* if limit: products_with_images = products_with_images[:limit]
Truncate(lst, lim) ==
    IF ~lim.isNone /\ lim.n # 0
    THEN SubSeq(lst, 1, Min(lim.n, Len(lst)))
    ELSE lst

\* result.score >= min_score
AboveThresholdFlipped(result, k) == result.score <= k

AboveThreshold(result, k) == result.score >= k

\* results.sort(key=lambda r: r.score, reverse=True): a stable sort
RECURSIVE InsertDesc(_, _)
InsertDesc(r, sorted) ==
    IF sorted = <<>> THEN <<r>>
    ELSE IF Head(sorted).score >= r.score
         THEN <<Head(sorted)>> \o InsertDesc(r, Tail(sorted))
         ELSE <<r>> \o sorted

RECURSIVE SortFrom(_, _)
SortFrom(lst, acc) ==
    IF lst = <<>> THEN acc ELSE SortFrom(Tail(lst), InsertDesc(Head(lst), acc))

SortDescNone(lst) == lst

SortDesc(lst) == SortFrom(lst, <<>>)

Tasks == 1..Len(products_with_images)

InFlight == { i \in Tasks : task[i] \in {"running", "fetched"} }

PoolUnbounded == TRUE

\* ThreadPoolExecutor(max_workers=max_workers): a queued task starts only
\* while fewer than max_workers tasks run
WorkerFree == Cardinality(InFlight) < max_workers

NoMatcher == [kind |-> "None"]

\* the StyleProfile handed to ProductMatcher(style_profile)
MatcherProfile ==
    [color_palette    |-> <<"navy", "cream">>,
     preferred_styles |-> <<"minimal">>,
     silhouettes      |-> <<>>,
     patterns         |-> <<>>,
     materials        |-> <<"linen">>,
     aesthetics       |-> <<>>,
     avoid            |-> <<"neon">>,
     summary          |-> "s"]

CallerListFiltered(lst) == SelectSeq(lst, LAMBDA x : x.image_url # "")

\* lines 175-178: the comprehension and the slice build new lists and rebind
\* the local name products_with_images; the list the caller passed is not
\* written
CallerList(lst) == lst

MatchInit ==
    /\ inputs \in InputLists
    /\ self_profile = MatcherProfile
    /\ min_score \in MinScores
    /\ max_workers \in 1..MaxWorkers
    /\ limit \in Limits
    /\ products_with_images = <<>>
    /\ mpc = "start"
    /\ task = <<>>
    /\ future_result = <<>>
    /\ failure = <<>>
    /\ results = <<>>
    /\ results0 = <<>>
    /\ image_data = <<>>
    /\ fetches = [i \in 1..Len(inputs) |-> 0]
    /\ model_calls = [i \in 1..Len(inputs) |-> 0]

MatchIdle ==
    /\ inputs = <<>>
    /\ self_profile = NoMatcher
    /\ min_score = 0
    /\ max_workers = 1
    /\ limit = [isNone |-> TRUE, n |-> 0]
    /\ products_with_images = <<>>
    /\ mpc = "idle"
    /\ task = <<>>
    /\ future_result = <<>>
    /\ failure = <<>>
    /\ results = <<>>
    /\ results0 = <<>>
    /\ image_data = <<>>
    /\ fetches = <<>>
    /\ model_calls = <<>>

\* lines 175-183: filter, truncate, results = [], open the pool
Filter ==
    /\ mpc = "start"
    /\ products_with_images' = Truncate(FilterImages(inputs, 1), limit)
    /\ task' = [i \in 1..Len(products_with_images') |-> "pending"]
    /\ future_result' = [i \in 1..Len(products_with_images') |-> None]
    /\ failure' = [i \in 1..Len(products_with_images') |-> "none"]
    /\ image_data' = [i \in 1..Len(products_with_images') |-> <<>>]
    /\ mpc' = "pool"
    /\ inputs' = CallerList(inputs)
    /\ UNCHANGED <<self_profile, min_score, max_workers, limit, results, results0,
                   fetches, model_calls>>
    /\ MatchOnly

AllSubmitted == \A i \in Tasks : task[i] # "pending"

\* lines 184-187: executor.submit(self.match_product, p), in list order
Submit(i) ==
    /\ mpc = "pool"
    /\ i \in Tasks
    /\ task[i] = "pending"
    /\ \A j \in 1..(i-1) : task[j] # "pending"
    /\ task' = [task EXCEPT ![i] = "queued"]
    /\ UNCHANGED <<self_profile, inputs, min_score, max_workers, limit, products_with_images, mpc,
                   future_result, failure, results, results0, fetches, model_calls,
                   image_data>>
    /\ MatchOnly

\* a worker thread of the pool takes the oldest queued task
StartTask(i) ==
    /\ mpc = "pool"
    /\ i \in Tasks
    /\ task[i] = "queued"
    /\ \A j \in 1..(i-1) : task[j] # "queued"
    /\ WorkerFree
    /\ task' = [task EXCEPT ![i] = "running"]
    /\ UNCHANGED <<self_profile, inputs, min_score, max_workers, limit, products_with_images, mpc,
                   future_result, failure, results, results0, fetches, model_calls,
                   image_data>>
    /\ MatchOnly

AfterFetchIgnored(res) == "fetched"

AfterFetchRetry(res) == IF Fetched(res) THEN "fetched" ELSE "running"

\* match_product lines 96-98: if not image_data: return None
AfterFetchState(res) == IF Fetched(res) THEN "fetched" ELSE "finished"

\* match_product lines 93-98: the image_url guard, then _fetch_image (lines
\* 47-65), which gives None on any exception and on a non-image content type
FetchImage(i) ==
    /\ mpc = "pool"
    /\ i \in Tasks
    /\ task[i] = "running"
    /\ LET p == products_with_images[i] IN
        IF ~NonEmpty(inputs[p].image_url)
        THEN /\ task' = [task EXCEPT ![i] = "finished"]
             /\ UNCHANGED <<fetches, failure, image_data>>
        ELSE /\ fetches' = [fetches EXCEPT ![p] = @ + 1]
             /\ \E res \in FetchOutcomes :
                  /\ task' = [task EXCEPT ![i] = AfterFetchState(res)]
                  /\ failure' = [failure EXCEPT ![i] =
                                    IF Fetched(res) THEN @ ELSE "fetch"]
                  /\ image_data' = [image_data EXCEPT ![i] =
                                       IF Fetched(res) THEN ContentType(res) ELSE @]
    /\ UNCHANGED <<self_profile, inputs, min_score, max_workers, limit, products_with_images, mpc,
                   future_result, results, results0, model_calls>>
    /\ MatchOnly

\* match_product lines 139-164: the model call and the parsing of its answer
ModelCall(i) ==
    /\ mpc = "pool"
    /\ i \in Tasks
    /\ task[i] = "fetched"
    /\ LET p == products_with_images[i] IN
        /\ model_calls' = [model_calls EXCEPT ![p] = @ + 1]
        /\ \E resp \in ModelResponses :
             /\ future_result' = [future_result EXCEPT ![i] = ParseResponse(p, resp)]
             /\ failure' = [failure EXCEPT ![i] =
                               IF ParseResponse(p, resp) = None THEN "model" ELSE @]
    /\ task' = [task EXCEPT ![i] = "finished"]
    /\ image_data' = [image_data EXCEPT ![i] = <<>>]
    /\ UNCHANGED <<self_profile, inputs, min_score, max_workers, limit, products_with_images, mpc,
                   results, results0, fetches>>
    /\ MatchOnly

\* lines 193-194: if result and result.score >= min_score: results.append(result)
\* (a score that does not compare with an int raises TypeError, which line 200
\* catches: nothing is appended)
Collected(lst, result, k) ==
    IF result # None /\ result.comparable /\ AboveThreshold(result, k)
    THEN Append(lst, result)
    ELSE lst

\* lines 189-201: as_completed yields a finished future; the caller handles it
Collect(i) ==
    /\ mpc = "pool"
    /\ AllSubmitted
    /\ i \in Tasks
    /\ task[i] = "finished"
    /\ results' = Collected(results, future_result[i], min_score)
    /\ results0' = Collected(results0, future_result[i], 0)
    /\ task' = [task EXCEPT ![i] = "collected"]
    /\ UNCHANGED <<self_profile, inputs, min_score, max_workers, limit, products_with_images, mpc,
                   future_result, failure, fetches, model_calls, image_data>>
    /\ MatchOnly

DrainedAlways == TRUE

\* lines 183-201: the as_completed loop ends once it has yielded every future,
\* and the with block is left once every task of the pool is over
Drained == \A i \in Tasks : task[i] = "collected"

\* lines 203-205: the pool is drained; sort and return
Return ==
    /\ mpc = "pool"
    /\ Drained
    /\ results' = SortDesc(results)
    /\ results0' = SortDesc(results0)
    /\ mpc' = "done"
    /\ UNCHANGED <<self_profile, inputs, min_score, max_workers, limit, products_with_images,
                   task, future_result, failure, fetches, model_calls, image_data>>
    /\ MatchOnly

MatchNext ==
    \/ Filter
    \/ \E i \in 1..MaxProducts : Submit(i)
    \/ \E i \in 1..MaxProducts : StartTask(i)
    \/ \E i \in 1..MaxProducts : FetchImage(i)
    \/ \E i \in 1..MaxProducts : ModelCall(i)
    \/ \E i \in 1..MaxProducts : Collect(i)
    \/ Return

(***************************************************************************)
(* The model's answer as text, and its cleaning (style_analyzer.py lines    *)
(* 134-142; product_matcher.py lines 146-153 are the same statements).     *)
(* A text is a sequence of tokens: "<ticks>" stands for three backticks,   *)
(* "json" is the word after it, a line feed is white space; every other    *)
(* token is a run of characters that holds no backtick.                    *)
(***************************************************************************)
\* whether pat occurs in s at position i
OccursAt(s, pat, i) ==
    /\ i >= 1
    /\ i + Len(pat) - 1 <= Len(s)
    /\ SubSeq(s, i, i + Len(pat) - 1) = pat

\* the first position >= from where pat occurs in s, or 0
FirstOcc(s, pat, from) ==
    IF \E i \in from..Len(s) : OccursAt(s, pat, i)
    THEN CHOOSE i \in from..Len(s) :
            OccursAt(s, pat, i) /\ \A j \in from..(i-1) : ~OccursAt(s, pat, j)
    ELSE 0

\* pat in s
In(pat, s) == FirstOcc(s, pat, 1) # 0

\* s.split(pat)[0]
SplitPiece0(s, pat) ==
    IF In(pat, s) THEN SubSeq(s, 1, FirstOcc(s, pat, 1) - 1) ELSE s

\* s.split(pat)[1], for an s that holds pat: what lies between the first
\* occurrence of pat and the next one (or the end)
SplitPiece1(s, pat) ==
    LET a == FirstOcc(s, pat, 1) + Len(pat)
        b == FirstOcc(s, pat, a)
    IN SubSeq(s, a, IF b = 0 THEN Len(s) ELSE b - 1)

FENCE == <<"<ticks>">>

FENCE_JSON == <<"<ticks>", "json">>

\* if FENCE_JSON in response_text: ... split(FENCE_JSON)[1].split(FENCE)[0]
\* elif FENCE in response_text:    ... split(FENCE)[1].split(FENCE)[0]
Clean(response_text) ==
    IF In(FENCE_JSON, response_text)
    THEN SplitPiece0(SplitPiece1(response_text, FENCE_JSON), FENCE)
    ELSE IF In(FENCE, response_text)
         THEN SplitPiece0(SplitPiece1(response_text, FENCE), FENCE)
         ELSE response_text

\* str.strip(): white space removed at both ends
RECURSIVE StripLeft(_)
StripLeft(s) == IF s # <<>> /\ Head(s) = "\n" THEN StripLeft(Tail(s)) ELSE s

RECURSIVE StripRight(_)
StripRight(s) ==
    IF s # <<>> /\ s[Len(s)] = "\n" THEN StripRight(SubSeq(s, 1, Len(s) - 1)) ELSE s

Strip(s) == StripRight(StripLeft(s))

\* JSON texts: an object with exactly the eight profile fields, an object
\* with the summary only, an object with the eight fields and one more, an
\* object whose summary string holds a fenced "1", an array
T_FULL    == <<"{eight fields}">>
T_PARTIAL == <<"{summary}">>
T_EXTRA   == <<"{eight fields, extra}">>
T_TICKS   == <<"{summary: '", "<ticks>", "1", "<ticks>", "'}">>
T_ARRAY   == <<"[]">>

\* the texts that are one JSON object
ObjectTexts == {T_FULL, T_PARTIAL, T_EXTRA, T_TICKS}

\* what the model may write where the JSON is expected: a JSON text, prose,
\* or nothing
Bodies == ObjectTexts \cup {T_ARRAY, <<"prose">>, <<>>}

\* how the model wraps it
Wraps == {"none", "fence_json", "fence", "prose_fence_json"}

Wrap(w, t) ==
    CASE w = "none" -> t
      [] w = "fence_json" -> <<"<ticks>", "json", "\n">> \o t \o <<"\n", "<ticks>">>
      [] w = "fence" -> <<"<ticks>", "\n">> \o t \o <<"\n", "<ticks>">>
      [] w = "prose_fence_json" ->
            <<"prose", "\n", "<ticks>", "json", "\n">> \o t \o <<"\n", "<ticks>", "\n", "prose">>

\* json.loads(text): ok is FALSE for JSONDecodeError; type is the Python
\* type of the value, doc names the object
JsonError == [ok |-> FALSE, type |-> "", doc |-> ""]

JsonLoads(text) ==
    CASE text = T_FULL    -> [ok |-> TRUE, type |-> "dict", doc |-> "full"]
      [] text = T_PARTIAL -> [ok |-> TRUE, type |-> "dict", doc |-> "partial"]
      [] text = T_EXTRA   -> [ok |-> TRUE, type |-> "dict", doc |-> "extra"]
      [] text = T_TICKS   -> [ok |-> TRUE, type |-> "dict", doc |-> "ticks"]
      [] text = T_ARRAY   -> [ok |-> TRUE, type |-> "list", doc |-> ""]
      [] text = <<"1">>   -> [ok |-> TRUE, type |-> "int", doc |-> ""]
      [] OTHER -> JsonError

\* lines 136-142: clean, strip, json.loads
ParseText(response_text) == JsonLoads(Strip(Clean(response_text)))

(***************************************************************************)
(* StyleProfile (style_analyzer.py lines 11-38).  An instance is a record  *)
(* of its eight fields; a dict is the sequence of its (key, value) pairs   *)
(* in insertion order.                                                     *)
(***************************************************************************)
ListFields == {"color_palette", "preferred_styles", "silhouettes", "patterns",
               "materials", "aesthetics", "avoid"}

Fields == ListFields \cup {"summary"}

Keys(d) == { d[i][1] : i \in 1..Len(d) }

\* d[k] for a key the dict holds
Lookup(d, k) == d[CHOOSE i \in 1..Len(d) : d[i][1] = k][2]

\* a field's initial value: the keyword argument, else the default
\* (field(default_factory=list), summary: str = "")
ListArg(d, k) == IF k \in Keys(d) THEN Lookup(d, k) ELSE <<>>

TextArg(d, k) == IF k \in Keys(d) THEN Lookup(d, k) ELSE ""

\* the generated __init__ of the dataclass, called as cls(**d)
NewProfile(d) ==
    [color_palette    |-> ListArg(d, "color_palette"),
     preferred_styles |-> ListArg(d, "preferred_styles"),
     silhouettes      |-> ListArg(d, "silhouettes"),
     patterns         |-> ListArg(d, "patterns"),
     materials        |-> ListArg(d, "materials"),
     aesthetics       |-> ListArg(d, "aesthetics"),
     avoid            |-> ListArg(d, "avoid"),
     summary          |-> TextArg(d, "summary")]

NoProfile == [kind |-> "None"]

ToDictWithoutAvoid(p) ==
    << <<"color_palette", p.color_palette>>,
       <<"preferred_styles", p.preferred_styles>>,
       <<"silhouettes", p.silhouettes>>,
       <<"patterns", p.patterns>>,
       <<"materials", p.materials>>,
       <<"aesthetics", p.aesthetics>>,
       <<"summary", p.summary>> >>

\* StyleProfile.to_dict
ToDict(p) ==
    << <<"color_palette", p.color_palette>>,
       <<"preferred_styles", p.preferred_styles>>,
       <<"silhouettes", p.silhouettes>>,
       <<"patterns", p.patterns>>,
       <<"materials", p.materials>>,
       <<"aesthetics", p.aesthetics>>,
       <<"avoid", p.avoid>>,
       <<"summary", p.summary>> >>

\* StyleProfile.from_dict(data) for a dict: cls(**data) raises TypeError on a
\* keyword that is no field
FromDict(d) ==
    IF Keys(d) \subseteq Fields
    THEN [err |-> "", profile |-> NewProfile(d)]
    ELSE [err |-> "TypeError", profile |-> NoProfile]

\* json.dump(d, f, indent=2): each value is written as a JSON array of
\* strings or as a JSON string
JsonDump(d) ==
    [i \in 1..Len(d) |->
        IF d[i][1] \in ListFields
        THEN [key |-> d[i][1], type |-> "array", items |-> d[i][2]]
        ELSE [key |-> d[i][1], type |-> "string", items |-> <<d[i][2]>>]]

\* json.load(f): an array comes back as a list, a string as a str
JsonLoad(file) ==
    [i \in 1..Len(file) |->
        IF file[i].type = "array"
        THEN <<file[i].key, file[i].items>>
        ELSE <<file[i].key, file[i].items[1]>>]

\* the dicts the model's JSON objects parse to
FullObject ==
    ToDict([color_palette |-> <<"a">>, preferred_styles |-> <<"a">>,
            silhouettes |-> <<"a">>, patterns |-> <<"a">>, materials |-> <<"a">>,
            aesthetics |-> <<"a">>, avoid |-> <<"a">>, summary |-> "s"])

DocPairs(doc) ==
    CASE doc = "full"    -> FullObject
      [] doc = "partial" -> << <<"summary", "s">> >>
      [] doc = "extra"   -> FullObject \o << <<"extra", "x">> >>
      [] doc = "ticks"   -> << <<"summary", "<ticks>1<ticks>">> >>

\* StyleProfile.from_dict(data) for what json.loads gave: ** of a value that
\* is no mapping raises TypeError
FromJson(value) ==
    IF value.type = "dict"
    THEN FromDict(DocPairs(value.doc))
    ELSE [err |-> "TypeError", profile |-> NoProfile]

EmptyProfile == NewProfile(<<>>)

\* StyleProfile(summary="Could not parse style profile")
SentinelProfile == NewProfile(<< <<"summary", "Could not parse style profile">> >>)

(***************************************************************************)
(* StyleAnalyzer.analyze_style_images (style_analyzer.py lines 81-147)     *)
(***************************************************************************)
\* what a path of image_paths names: a file that opens, nothing, or
\* something that exists and that open(path, "rb") fails on (a directory, a
\* file without read permission)
PathKinds == {"file", "missing", "locked"}

ImageLists ==
    UNION { [1..n -> {"file", "missing"}] : n \in 0..MaxImages }
    \cup UNION { [1..n -> PathKinds] : n \in 0..MaxMixed }

ExistsAlways(kind) == TRUE

\* path.exists()
Exists(kind) == kind # "missing"

\* whether open(path, "rb") of _load_image succeeds
Opens(kind) == kind = "file"

Uncapped(paths) == paths

\* image_paths[:10]
Capped(paths) == SubSeq(paths, 1, Min(ImageCap, Len(paths)))

ImageItem(i) == [type |-> "image", path |-> i]

TextItem == [type |-> "text", path |-> 0]

\* lines 87-101: the loop over the capped list; a missing path is skipped,
\* _load_image raises where open() fails, an opened file is appended
RECURSIVE LoadImages(_, _, _)
LoadImages(paths, i, acc) ==
    IF i > Len(paths) THEN [err |-> "", content |-> acc]
    ELSE IF ~Exists(paths[i]) THEN LoadImages(paths, i + 1, acc)
    ELSE IF ~Opens(paths[i]) THEN [err |-> "OSError", content |-> acc]
    ELSE LoadImages(paths, i + 1, Append(acc, ImageItem(i)))

\* what messages.create ends with: an exception of the client, a response
\* whose content list is empty, or a response with a text
NoResponse == [kind |-> "none", body |-> <<>>, wrap |-> "none"]

AnalyzerResponses ==
    {[kind |-> k, body |-> <<>>, wrap |-> "none"] : k \in {"api_error", "no_content"}}
    \cup {[kind |-> "text", body |-> b, wrap |-> w] : b \in Bodies, w \in Wraps}

NoData == [ok |-> FALSE, type |-> "unset", doc |-> ""]

NoResult == [err |-> "unset", profile |-> NoProfile]

\* the fields of save_profile / load_profile and of the round trip, unused
ProfileIdle ==
    /\ restored = NoResult
    /\ saved = <<>>
    /\ loaded = NoResult

AnalyzeInit ==
    /\ image_paths \in ImageLists
    /\ apc = "start"
    /\ content = <<>>
    /\ requests = <<>>
    /\ response = NoResponse
    /\ data = NoData
    /\ bare = NoData
    /\ aoutcome = "running"
    /\ profile = NoProfile
    /\ ProfileIdle

AnalyzeIdle ==
    /\ image_paths = <<>>
    /\ apc = "idle"
    /\ content = <<>>
    /\ requests = <<>>
    /\ response = NoResponse
    /\ data = NoData
    /\ bare = NoData
    /\ aoutcome = "running"
    /\ profile = NoProfile
    /\ ProfileIdle

\* an exception leaves analyze_style_images
Raise(exc) ==
    /\ aoutcome' = exc
    /\ apc' = "end"

\* lines 83-125: the empty test, the loop, the no-image test, the text item
BuildContent ==
    /\ apc = "start"
    /\ IF image_paths = <<>>
       THEN /\ Raise("ValueError")
            /\ UNCHANGED content
       ELSE LET r == LoadImages(Capped(image_paths), 1, <<>>) IN
            IF r.err # ""
            THEN /\ Raise(r.err)
                 /\ content' = r.content
            ELSE IF r.content = <<>>
                 THEN /\ Raise("ValueError")
                      /\ UNCHANGED content
                 ELSE /\ content' = Append(r.content, TextItem)
                      /\ apc' = "call"
                      /\ UNCHANGED aoutcome
    /\ UNCHANGED <<image_paths, requests, response, data, bare, profile,
                   restored, saved, loaded>>
    /\ AnalyzeOnly

\* lines 127-131: self.client.messages.create(...), outside any try
CallModel ==
    /\ apc = "call"
    /\ requests' = Append(requests, content)
    /\ \E resp \in AnalyzerResponses :
        /\ response' = resp
        /\ IF resp.kind = "api_error"
           THEN Raise("APIError")
           ELSE /\ apc' = "parse"
                /\ UNCHANGED aoutcome
    /\ UNCHANGED <<image_paths, content, data, bare, profile, restored, saved, loaded>>
    /\ AnalyzeOnly

\* lines 134-147: response.content[0].text, the cleaning, then
\* try: json.loads, from_dict / except json.JSONDecodeError: the sentinel
ParseProfile ==
    /\ apc = "parse"
    /\ apc' = "end"
    /\ IF response.kind = "no_content"
       THEN /\ aoutcome' = "IndexError"
            /\ UNCHANGED <<data, bare, profile>>
       ELSE LET v == ParseText(Wrap(response.wrap, response.body)) IN
            /\ data' = v
            /\ bare' = ParseText(response.body)
            /\ IF ~v.ok
               THEN /\ profile' = SentinelProfile
                    /\ aoutcome' = "returned"
               ELSE IF FromJson(v).err # ""
                    THEN /\ aoutcome' = FromJson(v).err
                         /\ UNCHANGED profile
                    ELSE /\ profile' = FromJson(v).profile
                         /\ aoutcome' = "returned"
    /\ UNCHANGED <<image_paths, content, requests, response, restored, saved, loaded>>
    /\ AnalyzeOnly

AnalyzeNext ==
    \/ BuildContent
    \/ CallModel
    \/ ParseProfile

(***************************************************************************)
(* The StyleProfile round trips: from_dict(to_dict(p)), and save_profile   *)
(* followed by load_profile (style_analyzer.py lines 24-38, 149-157)       *)
(***************************************************************************)
ListValues == {<<>>, <<"a", "b">>}

Profiles ==
    [color_palette : ListValues, preferred_styles : ListValues,
     silhouettes : ListValues, patterns : ListValues, materials : ListValues,
     aesthetics : ListValues, avoid : ListValues, summary : {"", "s"}]

ProfileInit ==
    /\ profile \in Profiles
    /\ apc = "profile"
    /\ image_paths = <<>>
    /\ content = <<>>
    /\ requests = <<>>
    /\ response = NoResponse
    /\ data = NoData
    /\ bare = NoData
    /\ aoutcome = "running"
    /\ ProfileIdle

\* StyleProfile.from_dict(profile.to_dict())
RoundTrip ==
    /\ apc \in {"profile", "saved", "loaded"}
    /\ restored = NoResult
    /\ restored' = FromDict(ToDict(profile))
    /\ UNCHANGED <<image_paths, apc, content, requests, response, data, bare,
                   aoutcome, profile, saved, loaded>>
    /\ AnalyzeOnly

\* save_profile: json.dump(profile.to_dict(), f, indent=2)
SaveProfile ==
    /\ apc = "profile"
    /\ saved' = JsonDump(ToDict(profile))
    /\ apc' = "saved"
    /\ UNCHANGED <<image_paths, content, requests, response, data, bare,
                   aoutcome, profile, restored, loaded>>
    /\ AnalyzeOnly

\* load_profile: StyleProfile.from_dict(json.load(f))
LoadProfile ==
    /\ apc = "saved"
    /\ loaded' = FromDict(JsonLoad(saved))
    /\ apc' = "loaded"
    /\ UNCHANGED <<image_paths, content, requests, response, data, bare,
                   aoutcome, profile, restored, saved>>
    /\ AnalyzeOnly

ProfileNext ==
    \/ RoundTrip
    \/ SaveProfile
    \/ LoadProfile

(***************************************************************************)
(* Products as the savers see them (src/models/product.py): a Product is    *)
(* a record of its nine fields; to_dict gives the dict of the same keys.    *)
(***************************************************************************)
Urls == {"u1", "u2"}

Names == {"n1", "n2"}

\* Product(name=..., price=..., url=..., image_url=..., retailer=..., colors=...)
NewProduct(u, n) ==
    [class |-> "Product", name |-> n, price |-> "N/A", url |-> u,
     image_url |-> "img", retailer |-> "Sezane", category |-> None,
     colors |-> <<>>, sizes |-> <<>>, description |-> None]

ProductValues == { NewProduct(u, n) : u \in Urls, n \in Names }

\* the product lists of at most MaxBatch products
Batches == UNION { [1..n -> ProductValues] : n \in 0..MaxBatch }

\* Product.to_dict
ProductToDict(p) ==
    [name |-> p.name, price |-> p.price, url |-> p.url, image_url |-> p.image_url,
     retailer |-> p.retailer, category |-> p.category, colors |-> p.colors,
     sizes |-> p.sizes, description |-> p.description]

\* [p.to_dict() for p in products]
ToDicts(lst) == [i \in 1..Len(lst) |-> ProductToDict(lst[i])]

(***************************************************************************)
(* scrape_all (shop.py lines 18-39; run_scrapers.py lines 9-37 has the same *)
(* calls), with the module imports and the construction of ArketScraper     *)
(* (browser.py lines 7-23, arket.py lines 5-20 and 124-132)                 *)
(***************************************************************************)
NOT_INSTALLED_MESSAGE ==
    "Playwright not installed. Run: pip install playwright && playwright install chromium"

ShopInit ==
    /\ installed \in BOOLEAN
    /\ PLAYWRIGHT_AVAILABLE = "unset"
    /\ BROWSER_AVAILABLE = "unset"
    /\ shpc = "import_browser"
    /\ arket = "unset"
    /\ all_products = <<>>
    /\ arket_products = <<>>
    /\ shop_outcome = "running"
    /\ error_message = ""

ShopIdle ==
    /\ installed = TRUE
    /\ PLAYWRIGHT_AVAILABLE = "unset"
    /\ BROWSER_AVAILABLE = "unset"
    /\ shpc = "idle"
    /\ arket = "unset"
    /\ all_products = <<>>
    /\ arket_products = <<>>
    /\ shop_outcome = "running"
    /\ error_message = ""

\* browser.py lines 7-11: the import of playwright is tried inside the module,
\* which catches its ImportError; the module itself is imported either way
ImportBrowser ==
    /\ shpc = "import_browser"
    /\ PLAYWRIGHT_AVAILABLE' = IF installed THEN "True" ELSE "False"
    /\ shpc' = "import_arket"
    /\ UNCHANGED <<installed, BROWSER_AVAILABLE, arket, all_products, arket_products,
                   shop_outcome, error_message>>
    /\ ShopOnly

\* whether "from .browser import BrowserScraper" raises ImportError: it does
\* only when the module browser.py was not imported
BrowserImportFails == PLAYWRIGHT_AVAILABLE = "unset"

\* arket.py lines 5-10
ImportArket ==
    /\ shpc = "import_arket"
    /\ BROWSER_AVAILABLE' = IF BrowserImportFails THEN "False" ELSE "True"
    /\ shpc' = "sezane"
    /\ UNCHANGED <<installed, PLAYWRIGHT_AVAILABLE, arket, all_products,
                   arket_products, shop_outcome, error_message>>
    /\ ShopOnly

\* shop.py lines 26-30: the Sezane scrape, all_products.extend(sezane_products)
ScrapeSezane ==
    /\ shpc = "sezane"
    /\ \E sezane_products \in Batches : all_products' = all_products \o sezane_products
    /\ shpc' = "construct"
    /\ UNCHANGED <<installed, PLAYWRIGHT_AVAILABLE, BROWSER_AVAILABLE, arket,
                   arket_products, shop_outcome, error_message>>
    /\ ShopOnly

\* what leaves scrape_all when an exception is raised in it: it has no try
ShopRaise(exc, msg) ==
    /\ shop_outcome' = exc
    /\ error_message' = msg
    /\ shpc' = "end"

\* BrowserScraper.__init__ (browser.py lines 17-23): whether it raises
ConstructionRaises(available) == available = "False"

\* arket = ArketScraper() (shop.py line 34): ArketScraper.__init__ calls
\* super().__init__() when BROWSER_AVAILABLE (arket.py lines 18-20)
ConstructArket ==
    /\ shpc = "construct"
    /\ IF BROWSER_AVAILABLE = "True" /\ ConstructionRaises(PLAYWRIGHT_AVAILABLE)
       THEN /\ ShopRaise("ImportError", NOT_INSTALLED_MESSAGE)
            /\ UNCHANGED arket
       ELSE /\ arket' = "ArketScraper"
            /\ shpc' = "arket"
            /\ UNCHANGED <<shop_outcome, error_message>>
    /\ UNCHANGED <<installed, PLAYWRIGHT_AVAILABLE, BROWSER_AVAILABLE, all_products,
                   arket_products>>
    /\ ShopOnly

\* arket_products = arket.scrape_new_arrivals(); all_products.extend(...)
\* (shop.py lines 35-39).  ArketScraper.scrape_new_arrivals (arket.py lines
\* 124-132) returns [] when not BROWSER_AVAILABLE, else what the browser
\* scrape returns, or raises what the browser scrape raises.
ScrapeArket ==
    /\ shpc = "arket"
    /\ IF BROWSER_AVAILABLE # "True"
       THEN /\ arket_products' = <<>>
            /\ all_products' = all_products \o <<>>
            /\ shop_outcome' = "returned"
            /\ shpc' = "end"
            /\ UNCHANGED error_message
       ELSE \E lst \in Batches, ok \in BOOLEAN :
                IF ok
                THEN /\ arket_products' = lst
                     /\ all_products' = all_products \o lst
                     /\ shop_outcome' = "returned"
                     /\ shpc' = "end"
                     /\ UNCHANGED error_message
                ELSE /\ ShopRaise("Exception", "browser")
                     /\ UNCHANGED <<arket_products, all_products>>
    /\ UNCHANGED <<installed, PLAYWRIGHT_AVAILABLE, BROWSER_AVAILABLE, arket>>
    /\ ShopOnly

ShopNext ==
    \/ ImportBrowser
    \/ ImportArket
    \/ ScrapeSezane
    \/ ConstructArket
    \/ ScrapeArket

(***************************************************************************)
(* The product file (save_products of shop.py lines 42-50, the same         *)
(* statements in run_scrapers.py lines 58-67) and the products table         *)
(* (backend/models.py).  The id column, a surrogate key, is left out of a   *)
(* row.  The two stores are written by different programs and no save      *)
(* touches both; a run saves to one of them.                               *)
(***************************************************************************)
\* the values of datetime.now() and of a scraped_at argument
Times == {"t1", "t2"}

NoFile == [kind |-> "None"]

NoBatch == <<>>

\* output = {"scraped_at": ..., "total_products": len(products), "products": [...]}
Output(products_arg, now) ==
    [scraped_at |-> now, total_products |-> Len(products_arg),
     products |-> ToDicts(products_arg)]

PersistInit ==
    /\ store \in {"file", "table"}
    /\ json_file = NoFile
    /\ json_batch = NoBatch
    /\ table = {}
    /\ db_batch = NoBatch
    /\ db_ts = "unset"

PersistIdle ==
    /\ store = "none"
    /\ json_file = NoFile
    /\ json_batch = NoBatch
    /\ table = {}
    /\ db_batch = NoBatch
    /\ db_ts = "idle"

\* save_products(products, path) of shop.py: open(path, "w") either fails and
\* leaves the file as it was, or empties it, and json.dump writes the output
SaveJson ==
    /\ store = "file"
    /\ \E batch \in Batches, now \in Times, opened \in BOOLEAN :
        IF opened
        THEN /\ json_file' = Output(batch, now)
             /\ json_batch' = batch
        ELSE UNCHANGED <<json_file, json_batch>>
    /\ UNCHANGED <<store, table, db_batch, db_ts>>
    /\ PersistOnly

\* Product(name=p["name"], ..., scraped_at=ts) (models.py lines 85-96)
Row(p, ts) ==
    [name |-> p.name, price |-> p.price, url |-> p.url, image_url |-> p.image_url,
     retailer |-> p.retailer, category |-> p.category, colors |-> p.colors,
     sizes |-> p.sizes, description |-> p.description, scraped_at |-> ts]

\* models.py lines 75-83: every column but url is assigned
Updated(existing, p, ts) ==
    [existing EXCEPT !.name = p.name, !.price = p.price, !.image_url = p.image_url,
                     !.retailer = p.retailer, !.category = p.category,
                     !.colors = p.colors, !.sizes = p.sizes,
                     !.description = p.description, !.scraped_at = ts]

InsertAlways(rows, p, ts) == rows \cup {Row(p, ts)}

\* models.py lines 73-96: session.query(Product).filter_by(url=p["url"]).first()
\* sees the rows of the table and those this session added (the query
\* flushes them); the row found is updated, else a row is added
Upsert(rows, p, ts) ==
    IF \E r \in rows : r.url = p.url
    THEN LET existing == CHOOSE r \in rows : r.url = p.url
         IN (rows \ {existing}) \cup {Updated(existing, p, ts)}
    ELSE rows \cup {Row(p, ts)}

\* for p in products: ..., from the i-th product on
RECURSIVE UpsertFrom(_, _, _, _)
UpsertFrom(rows, batch, ts, i) ==
    IF i > Len(batch) THEN rows
    ELSE UpsertFrom(Upsert(rows, batch[i], ts), batch, ts, i + 1)

\* save_products(products, scraped_at) of models.py lines 65-100: one session,
\* one commit; an exception before the commit is over leaves the table as it
\* was
SaveProducts(batch, ts, committed) ==
    /\ table' = IF committed THEN UpsertFrom(table, batch, ts, 1) ELSE table
    /\ db_batch' = IF committed THEN batch ELSE db_batch
    /\ db_ts' = IF committed THEN ts ELSE db_ts

\* a call of save_products with a list of product dicts and a scraped_at
\* (migrate of migrate_json.py calls it with the products and the scraped_at
\* of a product file)
CallSaveProducts ==
    /\ store = "table"
    /\ \E batch \in Batches, ts \in Times, committed \in BOOLEAN :
        SaveProducts(ToDicts(batch), ts, committed)
    /\ UNCHANGED <<store, json_file, json_batch>>
    /\ PersistOnly

PersistNext ==
    \/ SaveJson
    \/ CallSaveProducts

(***************************************************************************)
(* Specifications                                                          *)
(***************************************************************************)
\* parse_products on every page of at most MaxAnchors anchors
ParseSpecInit == ParseInit /\ ScrapeIdle /\ MatchIdle /\ AnalyzeIdle /\ ShopIdle /\ PersistIdle

ParseSpec == ParseSpecInit /\ [][ParseNext]_vars

\* scrape_new_arrivals of both variants
ScrapeSpecInit == ScrapeInit /\ ParseIdle /\ MatchIdle /\ AnalyzeIdle /\ ShopIdle /\ PersistIdle

ScrapeSpec == ScrapeSpecInit /\ [][ScrapeNext]_vars

\* match_products on every input list of at most MaxProducts products
Init == MatchInit /\ ParseIdle /\ ScrapeIdle /\ AnalyzeIdle /\ ShopIdle /\ PersistIdle

Next == MatchNext

Spec == Init /\ [][Next]_vars

\* analyze_style_images on every list of ImageLists
AnalyzeSpecInit == AnalyzeInit /\ ParseIdle /\ ScrapeIdle /\ MatchIdle /\ ShopIdle /\ PersistIdle

AnalyzeSpec == AnalyzeSpecInit /\ [][AnalyzeNext]_vars

\* the round trips of every StyleProfile of Profiles
ProfileSpecInit == ProfileInit /\ ParseIdle /\ ScrapeIdle /\ MatchIdle /\ ShopIdle /\ PersistIdle

ProfileSpec == ProfileSpecInit /\ [][ProfileNext]_vars

\* scrape_all with and without the playwright package
ShopSpecInit ==
    ShopInit /\ PersistIdle /\ ParseIdle /\ ScrapeIdle /\ MatchIdle /\ AnalyzeIdle

ShopSpec == ShopSpecInit /\ [][ShopNext]_vars

\* every sequence of saves to the product file and to the products table
PersistSpecInit ==
    PersistInit /\ ShopIdle /\ ParseIdle /\ ScrapeIdle /\ MatchIdle /\ AnalyzeIdle

PersistSpec == PersistSpecInit /\ [][PersistNext]_vars

(***************************************************************************)
(* Properties of parse_products (checked under ParseSpec)                  *)
(***************************************************************************)
\* a URL with its fragment and its query string removed
NormalizedUrl(u) == SplitFirst(SplitFirst(u, "#"), "?")

\* a URL with the volatile suffix of its retailer removed: the fragment for
\* Sezane, the query string for Arket
RetailerNormalized(r, u) == IF r = "Sezane" THEN SplitFirst(u, "#") ELSE SplitFirst(u, "?")

\* the href a returned product was built from
SourceHref(k) == page[products[k].anchor].href

\* the anchors of the page that point to a product
ProductAnchors == { i \in 1..Len(page) : HasProductPattern(page[i].href) }

SetMin(S) == CHOOSE x \in S : \A y \in S : x <= y

\* C1 as stated: the returned list holds no two products whose URLs are equal
\* once fragment and query string are both removed.
C1_NoTwoSameNormalizedUrl ==
    ppc = "done" =>
        \A i, j \in 1..Len(products) :
            i # j => NormalizedUrl(products[i].url) # NormalizedUrl(products[j].url)

\* C1 amended: the returned list holds no two products whose URLs are equal
\* once the retailer's own volatile suffix (fragment for Sezane, query string
\* for Arket) is removed; the list under construction never does either.
C1_NoTwoSameRetailerUrl ==
    \A i, j \in 1..Len(products) :
        i # j => RetailerNormalized(retailer, products[i].url)
                   # RetailerNormalized(retailer, products[j].url)

\* a finished parse that returned two products and dropped a duplicate link
C1_Witness ==
    /\ ppc = "done"
    /\ Len(products) = 2
    /\ \E i, j \in ProductAnchors :
        /\ i < j
        /\ page[i].href # page[j].href
        /\ RetailerNormalized(retailer, FullUrl(page[i].href))
             = RetailerNormalized(retailer, FullUrl(page[j].href))
        /\ products[1].anchor = i

\* C2 as stated: a product whose href held a fragment or a query string is
\* stored with a url that holds neither "#" nor "?", for both scrapers.
C2_NoFragmentNoQuery ==
    ppc = "done" =>
        \A k \in 1..Len(products) :
            (Contains(SourceHref(k), "#") \/ Contains(SourceHref(k), "?"))
                => (~Contains(products[k].url, "#") /\ ~Contains(products[k].url, "?"))

\* C2 amended: the stored url of a Sezane product holds no fragment (no "#")
\* and the stored url of an Arket product holds no query string (no "?"); it
\* is the absolute href cut at that separator, so a query string of a Sezane
\* href and a fragment of an Arket href are kept.
C2_RetailerSuffixAbsent ==
    \A k \in 1..Len(products) :
        /\ products[k].retailer = "Sezane" => ~Contains(products[k].url, "#")
        /\ products[k].retailer = "Arket" => ~Contains(products[k].url, "?")
        /\ products[k].url = RetailerNormalized(retailer, FullUrl(SourceHref(k)))

\* a returned product whose href held the suffix its scraper strips
C2_Witness ==
    /\ ppc = "done"
    /\ \E k \in 1..Len(products) :
        /\ Contains(SourceHref(k), IF retailer = "Sezane" THEN "#" ELSE "?")
        /\ products[k].url # FullUrl(SourceHref(k))

\* the product anchors whose absolute href normalizes like that of anchor i
SameNormalized(i) ==
    { j \in ProductAnchors :
        NormalizedUrl(FullUrl(page[j].href)) = NormalizedUrl(FullUrl(page[i].href)) }

SameRetailerUrl(i) ==
    { j \in ProductAnchors :
        RetailerNormalized(retailer, FullUrl(page[j].href))
          = RetailerNormalized(retailer, FullUrl(page[i].href)) }

\* C3 as stated: several anchors that normalize (fragment and query removed)
\* to one URL give exactly one product for that URL, built from the first of
\* them.
C3_ExactlyOneFirstWins ==
    ppc = "done" =>
        \A i \in ProductAnchors :
            Cardinality(SameNormalized(i)) >= 2 =>
                LET P == { k \in 1..Len(products) :
                             NormalizedUrl(products[k].url)
                               = NormalizedUrl(FullUrl(page[i].href)) }
                IN /\ Cardinality(P) = 1
                   /\ \A k \in P : products[k].anchor = SetMin(SameNormalized(i))

\* C3 amended: several anchors that agree once the retailer's own suffix is
\* removed give at most one product for that URL; they give one exactly when
\* the first of them parses without an exception, and that product is built
\* from the first of them.
C3_AtMostOneFirstWins ==
    ppc = "done" =>
        \A i \in ProductAnchors :
            LET first == SetMin(SameRetailerUrl(i))
                P == { k \in 1..Len(products) :
                         products[k].url
                           = RetailerNormalized(retailer, FullUrl(page[i].href)) }
            IN /\ Cardinality(P) <= 1
               /\ Cardinality(P) = 1 <=> page[first].parse = "ok"
               /\ \A k \in P : products[k].anchor = first

\* three anchors to one product that differ only by the stripped suffix, and
\* the one product built from the first
C3_Witness ==
    /\ ppc = "done"
    /\ Len(products) = 1
    /\ \E i \in ProductAnchors :
        /\ Cardinality(SameRetailerUrl(i)) = 3
        /\ Cardinality({ page[j].href : j \in SameRetailerUrl(i) }) = 3
        /\ products[1].anchor = SetMin(SameRetailerUrl(i))
        /\ \E j \in SameRetailerUrl(i) : j # products[1].anchor /\ page[j].parse = "ok"

\* the dedup key of the k-th selected link
KeyOf(k) == BaseUrl(retailer, FullUrl(page[product_links[k]].href))

\* the selected links that point to a product
ProductLinks == { k \in 1..Len(product_links) :
                    HasProductPattern(page[product_links[k]].href) }

\* the k-th selected link is the first one with its dedup key
FirstWithKey(k) == \A j \in ProductLinks : j < k => KeyOf(j) # KeyOf(k)

\* C25: an anchor whose parsing raises is skipped and the loop goes on: the
\* parse returns only after the last selected link, and at every moment each
\* link already passed that points to a product, is the first with its URL
\* and parses without an exception has its product in the list, whatever
\* happened to the links before and after it.
C25_FailureDoesNotAbort ==
    /\ ppc = "done" => pos = Len(product_links) + 1
    /\ ppc \in {"loop", "done"} =>
        \A k \in ProductLinks :
            (k < pos /\ FirstWithKey(k) /\ page[product_links[k]].parse = "ok") =>
                \E m \in 1..Len(products) : products[m].anchor = product_links[k]

\* a returned parse in which the second of three links raised, and the links
\* before and after it gave the two products
C25_Witness ==
    /\ ppc = "done"
    /\ Len(product_links) = 3
    /\ ProductLinks = {1, 2, 3}
    /\ page[product_links[2]].parse = "raise"
    /\ FirstWithKey(2)
    /\ Len(products) = 2
    /\ products[1].anchor = product_links[1]
    /\ products[2].anchor = product_links[3]

\* C29: the dedup key (the URL with the retailer's suffix removed) of a link
\* is in seen_urls once the link has been passed, whether its parsing raised
\* or not; so when the first link with a key raises, no product with that URL
\* is in the output and no later link with that key gives one; the number of
\* returned products is at most the number of distinct keys.
C29_SeenBeforeParse ==
    ppc \in {"loop", "done"} =>
        /\ \A k \in ProductLinks : k < pos => KeyOf(k) \in seen_urls
        /\ \A k \in ProductLinks :
            (k < pos /\ FirstWithKey(k) /\ page[product_links[k]].parse = "raise") =>
                \A m \in 1..Len(products) :
                    /\ products[m].url # KeyOf(k)
                    /\ \A j \in ProductLinks :
                        KeyOf(j) = KeyOf(k) => products[m].anchor # product_links[j]
        /\ Len(products) <= Cardinality({ KeyOf(k) : k \in ProductLinks })

\* the first of two links with one key raised, the second would have parsed:
\* fewer products are returned than there are distinct keys
C29_Witness ==
    /\ ppc = "done"
    /\ \E j, k \in ProductLinks :
        /\ j < k
        /\ FirstWithKey(j)
        /\ KeyOf(j) = KeyOf(k)
        /\ page[product_links[j]].parse = "raise"
        /\ page[product_links[k]].parse = "ok"
    /\ Len(products) >= 1
    /\ Len(products) < Cardinality({ KeyOf(k) : k \in ProductLinks })

(***************************************************************************)
(* Properties of scrape_new_arrivals (checked under ScrapeSpec)            *)
(***************************************************************************)
\* C4: scrape_new_arrivals never raises: every call that ends, ends by
\* returning a list, whatever fails on the way (static and browser variant).
C4_NeverRaises == spc = "end" => outcome = "returned"

\* C5: when a browser-variant call ends, by return or by exception, nothing
\* it acquired is still held: the driver is not left started, and the
\* browser, the context and the page are not left open.
C5_AllReleasedAtEnd ==
    (spc = "end" /\ variant = "browser") =>
        /\ playwright # "started"
        /\ browser # "open"
        /\ context # "open"
        /\ pageh # "open"

\* the release steps of _close_browser, in the order the code names them
ReleaseOrder == <<"context", "browser", "playwright">>

\* C20: whenever the teardown of a browser-variant call has run, it closed
\* the context before the browser and the browser before it stopped the
\* driver, and it began every one of the three steps, also when an earlier
\* step failed.
C20_OrderedUnconditional ==
    /\ \E n \in 0..3 : release_tried = SubSeq(ReleaseOrder, 1, n)
    /\ (spc = "end" /\ release_tried # <<>>) => release_tried = ReleaseOrder

(***************************************************************************)
(* Properties of match_products (checked under Spec)                       *)
(***************************************************************************)
\* the input products that hold an image, in input order, cut to the first
\* limit of them when a limit is in force
ImageBearing == { p \in 1..Len(inputs) : inputs[p].image_url # "" }

Remaining ==
    IF limit.isNone \/ limit.n = 0
    THEN ImageBearing
    ELSE { p \in ImageBearing :
             Cardinality({ q \in ImageBearing : q <= p }) <= limit.n }

\* the tasks of the pool that have started and have not finished
Started == { i \in DOMAIN task : task[i] \in {"running", "fetched"} }

\* the products of the results list
ResultProducts(lst) == { lst[k].product : k \in 1..Len(lst) }

C7_FailureIsolated ==
    /\ mpc \in {"start", "pool"} => ENABLED MatchNext
    /\ \A i \in DOMAIN task :
        failure[i] # "none" => products_with_images[i] \notin ResultProducts(results)
    /\ mpc = "done" =>
        \A i \in DOMAIN task :
            /\ task[i] = "collected"
            /\ (/\ failure[i] = "none"
                /\ future_result[i] # None
                /\ future_result[i].comparable
                /\ future_result[i].score >= min_score)
               => products_with_images[i] \in ResultProducts(results)

\* three products on two workers: the image fetch of one failed, the two
\* others are in the output
C7_Witness ==
    /\ mpc = "done"
    /\ max_workers = 2
    /\ Len(products_with_images) = 3
    /\ \E i \in DOMAIN task :
        /\ failure[i] = "fetch"
        /\ model_calls[products_with_images[i]] = 0
        /\ ResultProducts(results)
             = { products_with_images[j] : j \in DOMAIN task \ {i} }

\* C8: the returned list is sorted non-increasing by score.
C8_SortedByScoreDesc ==
    mpc = "done" =>
        \A a, b \in 1..Len(results) : a < b => results[a].score >= results[b].score

\* a returned list of two results of different scores, the later input first
C8_Witness ==
    /\ mpc = "done"
    /\ Len(results) = 2
    /\ results[1].score > results[2].score
    /\ results[1].product > results[2].product

\* C9: a product whose image_url is empty is never in the results, and no
\* image fetch and no model call is ever issued for it.
C9_NoImageNoResult ==
    \A p \in 1..Len(inputs) :
        inputs[p].image_url = "" =>
            /\ p \notin ResultProducts(results)
            /\ fetches[p] = 0
            /\ model_calls[p] = 0
            /\ \A i \in DOMAIN task : products_with_images[i] # p

\* a finished run over an input that mixes a product without image with
\* scored products
C9_Witness ==
    /\ mpc = "done"
    /\ \E p \in 1..Len(inputs) : inputs[p].image_url = ""
    /\ Len(results) >= 1
    /\ inputs[1].image_url = ""

\* the results as a set
ResultSet(lst) == { lst[k] : k \in 1..Len(lst) }

\* C10: with the scoring outcomes held fixed, the results for min_score = k
\* are among the results for min_score = 0, and each has score >= k.
C10_ThresholdSubset ==
    mpc = "done" =>
        /\ ResultSet(results) \subseteq ResultSet(results0)
        /\ \A k \in 1..Len(results) : results[k].score >= min_score

\* what match_product returned for the tasks that gave a MatchResult
Returned == { future_result[i] : i \in { j \in DOMAIN future_result :
                                            future_result[j] # None } }

\* C11: every MatchResult that match_product returns, and every MatchResult
\* of the list match_products builds, has a score that is an integer from 1
\* to 10.
C11_ScoreInRange ==
    /\ \A r \in Returned : r.comparable /\ r.score \in 1..10
    /\ \A k \in 1..Len(results) : results[k].comparable /\ results[k].score \in 1..10

Dispatched == { products_with_images[i] : i \in DOMAIN task }

\* the first n image-bearing products of the input
FirstImageBearing(n) ==
    { p \in ImageBearing : Cardinality({ q \in ImageBearing : q <= p }) <= n }

\* C13: with a limit that is set (0 included) tasks are dispatched for exactly
\* the first limit image-bearing products, in input order, so at most limit
\* products are scored; with limit None all image-bearing products are.
C13_LimitDispatch ==
    mpc \in {"pool", "done"} =>
        /\ \A i, j \in DOMAIN task : i < j => products_with_images[i] < products_with_images[j]
        /\ limit.isNone => Dispatched = ImageBearing
        /\ ~limit.isNone =>
            /\ Dispatched = FirstImageBearing(limit.n)
            /\ Cardinality(Dispatched) <= limit.n

\* C21: nothing is retried: within one run every input product has at most
\* one image fetch and at most one model call, a failed fetch is followed by
\* no model call, and a product whose fetch or model call failed is never in
\* the results.
C21_NoRetry ==
    /\ \A p \in 1..Len(inputs) : fetches[p] <= 1 /\ model_calls[p] <= 1
    /\ \A i \in DOMAIN task :
        LET p == products_with_images[i] IN
            /\ failure[i] = "fetch" => task[i] \in {"finished", "collected"}
            /\ failure[i] = "model" =>
                /\ task[i] \in {"finished", "collected"}
                /\ future_result[i] = None
            /\ failure[i] # "none" =>
                /\ fetches[p] = 1
                /\ \A k \in 1..Len(results) : results[k].product # p

\* a returned run in which one fetch failed and one model call failed, each
\* attempted once, and neither product is in the output
C21_Witness ==
    /\ mpc = "done"
    /\ \E i, j \in DOMAIN task :
        /\ failure[i] = "fetch"
        /\ failure[j] = "model"
        /\ fetches[products_with_images[i]] = 1
        /\ model_calls[products_with_images[i]] = 0
        /\ fetches[products_with_images[j]] = 1
        /\ model_calls[products_with_images[j]] = 1
        /\ {products_with_images[i], products_with_images[j]}
             \cap ResultProducts(results) = {}

\* the task of product p, if one was dispatched
TaskOf(p) == { i \in DOMAIN task : products_with_images[i] = p }

\* C22: a model call is issued for a product only by its task, after that
\* task's one image fetch gave an image/* media type (image/jpeg when the
\* response had no content-type header); a product whose fetch failed or gave
\* another content type never gets a model call.
C22_ModelCallOnlyAfterImage ==
    /\ [](\A i \in DOMAIN task :
            failure[i] = "fetch" => model_calls[products_with_images[i]] = 0)
    /\ [][\A p \in 1..Len(inputs) :
            model_calls'[p] # model_calls[p] =>
                \E i \in TaskOf(p) :
                    /\ task[i] = "fetched"
                    /\ failure[i] = "none"
                    /\ fetches[p] = 1
                    /\ image_data[i] \in {<<"image/", "png">>, <<"image/", "jpeg">>}]_vars

\* a task holds the default media type of a response without content-type
\* header and is about to call the model, another product was scored, and a
\* third got text/html or a network error and no model call
C22_Witness ==
    \E i, j, k \in DOMAIN task :
        /\ task[i] = "fetched"
        /\ image_data[i] = <<"image/", "jpeg">>
        /\ model_calls[products_with_images[j]] = 1
        /\ future_result[j] # None
        /\ failure[k] = "fetch"
        /\ model_calls[products_with_images[k]] = 0

\* C23: no step of match_products changes the style profile, an input
\* Product or the caller's input list; a step of a worker task changes only
\* that task's own result; and the results list changes only in a step of
\* the collecting caller (the handling of a completed future, or the final
\* sort).
C23_FrameOfMatchProducts ==
    [][/\ inputs' = inputs
       /\ self_profile' = self_profile
       /\ \A i \in DOMAIN task :
            (task[i] \in {"running", "fetched"} /\ task'[i] # task[i]) =>
                /\ results' = results
                /\ \A j \in DOMAIN task \ {i} :
                    /\ future_result'[j] = future_result[j]
                    /\ task'[j] = task[j]
       /\ results' # results =>
            \/ \E i \in DOMAIN task : task[i] = "finished" /\ task'[i] = "collected"
            \/ mpc = "pool" /\ mpc' = "done"]_vars

\* a returned run over three products of which one had no image: two tasks
\* ran and gave the two results of the output, reordered by the final sort
C23_Witness ==
    /\ mpc = "done"
    /\ Len(inputs) = 3
    /\ inputs[2].image_url = ""
    /\ Len(products_with_images) = 2
    /\ Len(results) = 2
    /\ results[1].product = 3
    /\ self_profile = MatcherProfile
    /\ \A p \in {1, 3} : model_calls[p] = 1

\* how many steps a task in state st is away from being collected
Rank(st) ==
    CASE st = "pending" -> 5
      [] st = "queued" -> 4
      [] st = "running" -> 3
      [] st = "fetched" -> 2
      [] st = "finished" -> 1
      [] OTHER -> 0

RECURSIVE RankSum(_)
RankSum(n) == IF n = 0 THEN 0 ELSE Rank(task[n]) + RankSum(n - 1)

\* a bound on the number of steps the run can still take
Measure ==
    CASE mpc = "start" -> 5 * Len(inputs) + 2
      [] mpc = "pool" -> RankSum(Len(task)) + 1
      [] OTHER -> 0

\* the outcome the collecting loop gives the completed task i (lines 191-201)
Outcome(i) ==
    LET r == future_result[i] IN
        IF r = None THEN "unscorable"
        ELSE IF ~r.comparable THEN "error"
        ELSE IF r.score >= min_score THEN "kept"
        ELSE "below_threshold"

Handled == { i \in DOMAIN task : task[i] = "collected" }

WithinLimit == IF limit.isNone THEN ImageBearing ELSE FirstImageBearing(limit.n)

\* C30: whatever the order in which the tasks complete, the results hold at
\* most one MatchResult per product, the product of every result is an
\* image-bearing input product within the limit for which a task was
\* dispatched, and every result is the one the task of its own product gave.
C30_OneResultOwnProduct ==
    /\ \A a, b \in 1..Len(results) :
        a # b => results[a].product # results[b].product
    /\ \A i \in DOMAIN task :
        future_result[i] # None => future_result[i].product = products_with_images[i]
    /\ \A k \in 1..Len(results) :
        /\ results[k].product \in Dispatched
        /\ results[k].product \in WithinLimit
        /\ \E i \in DOMAIN task :
            /\ products_with_images[i] = results[k].product
            /\ future_result[i] = results[k]

(***************************************************************************)
(* Properties of analyze_style_images (checked under AnalyzeSpec)          *)
(***************************************************************************)
\* the positions of image_paths that the loop looks at
FirstTen == 1..Min(ImageCap, Len(image_paths))

\* the positions, among those, whose path exists
ExistingOfFirstTen == { i \in FirstTen : image_paths[i] # "missing" }

\* the image items of the positions of S in ascending order, then the text
RECURSIVE ImagesAsc(_, _)
ImagesAsc(S, i) ==
    IF i > Len(image_paths) THEN <<>>
    ELSE (IF i \in S THEN <<[type |-> "image", path |-> i]>> ELSE <<>>)
         \o ImagesAsc(S, i + 1)

RequestOf(S) == ImagesAsc(S, 1) \o <<[type |-> "text", path |-> 0]>>

\* C14 as stated: the call fails with ValueError, and before any model
\* call, if image_paths is empty or none of its paths is readable, and in
\* every other case it does not fail with ValueError.
C14_ValueErrorIffNoneReadable ==
    apc # "start" =>
        LET noneReadable == \A i \in 1..Len(image_paths) : image_paths[i] # "file"
        IN /\ noneReadable => (aoutcome = "ValueError" /\ requests = <<>>)
           /\ ~noneReadable => aoutcome # "ValueError"

\* C14 amended: the call fails with ValueError exactly when image_paths is
\* empty or none of its first 10 paths exists, and then no model call was
\* made; a path among the first 10 that exists and cannot be opened makes
\* the call fail with OSError instead, before any model call too.
C14_ValueErrorIffNoneExistsInFirstTen ==
    apc # "start" =>
        /\ aoutcome = "ValueError" <=> ExistingOfFirstTen = {}
        /\ aoutcome = "OSError" <=> \E i \in FirstTen : image_paths[i] = "locked"
        /\ aoutcome \in {"ValueError", "OSError"} => requests = <<>>

\* eleven paths, the first ten missing and the eleventh a readable file: the
\* call ended with ValueError
C14_Witness ==
    /\ apc = "end"
    /\ aoutcome = "ValueError"
    /\ Len(image_paths) = ImageCap + 1
    /\ image_paths[ImageCap + 1] = "file"
    /\ requests = <<>>

C16_UnparsableGivesSentinel ==
    (apc = "end" /\ response.kind = "text" /\ ~data.ok) =>
        /\ aoutcome = "returned"
        /\ profile = [color_palette |-> <<>>, preferred_styles |-> <<>>,
                      silhouettes |-> <<>>, patterns |-> <<>>, materials |-> <<>>,
                      aesthetics |-> <<>>, avoid |-> <<>>,
                      summary |-> "Could not parse style profile"]

\* a fenced answer that holds prose instead of JSON gave the sentinel profile
C16_Witness ==
    /\ apc = "end"
    /\ response.kind = "text"
    /\ response.wrap = "fence_json"
    /\ response.body = <<"prose">>
    /\ ~data.ok
    /\ aoutcome = "returned"
    /\ profile.summary = "Could not parse style profile"

\* C18: for a response that is a JSON object text wrapped in a json fence,
\* cleaning and parsing give the same value as they give for the object
\* text without the fence.
C18_FencedParsesAsBare ==
    (apc = "end" /\ response.kind = "text" /\ response.wrap = "fence_json"
       /\ response.body \in ObjectTexts) =>
        data = bare

\* C19: a call that ends either returns a StyleProfile or fails with one of
\* the input errors (ValueError, or the OSError of an unopenable path): a
\* failing model call, a response without content and JSON that is no
\* object of the eight fields all end in a returned profile.
C19_OnlyInputErrorsRaised ==
    apc = "end" =>
        /\ aoutcome \in {"returned", "ValueError", "OSError"}
        /\ aoutcome = "returned" => profile # NoProfile

(***************************************************************************)
(* Properties of the StyleProfile round trips (checked under ProfileSpec)  *)
(***************************************************************************)
\* C17: for every StyleProfile p, from_dict(to_dict(p)) raises nothing and
\* equals p in all eight fields, and so does load_profile of the file that
\* save_profile wrote for p.
C17_RoundTripLossless ==
    /\ restored.err # "unset" =>
        /\ restored.err = ""
        /\ \A f \in Fields : restored.profile[f] = profile[f]
    /\ loaded.err # "unset" =>
        /\ loaded.err = ""
        /\ \A f \in Fields : loaded.profile[f] = profile[f]

\* a profile with a summary and non-empty lists went through both round trips
C17_Witness ==
    /\ apc = "loaded"
    /\ restored.err = ""
    /\ loaded.err = ""
    /\ profile.avoid = <<"a", "b">>
    /\ profile.color_palette = <<"a", "b">>
    /\ profile.summary = "s"
    /\ loaded.profile.avoid = <<"a", "b">>
    /\ restored.profile.summary = "s"

(***************************************************************************)
(* Properties of scrape_all and the construction of ArketScraper (checked  *)
(* under ShopSpec)                                                         *)
(***************************************************************************)
\* C26: without the playwright package the construction of ArketScraper
\* fails with the ImportError that tells how to install it, and the caller
\* of ArketScraper.scrape_new_arrivals ends with an empty product list for
\* Arket instead of an exception.
C26_MissingPlaywrightFallsBack ==
    (~installed /\ shpc = "end") =>
        /\ arket = "unset"
        /\ error_message = NOT_INSTALLED_MESSAGE
        /\ shop_outcome = "returned"
        /\ arket_products = <<>>

(***************************************************************************)
(* Properties of the product file and the products table (checked under    *)
(* PersistSpec)                                                            *)
(***************************************************************************)
\* the urls of a list of product dicts
UrlsOf(batch) == { batch[i].url : i \in 1..Len(batch) }

\* the last product dict of the batch with url u
LastWith(batch, u) ==
    batch[CHOOSE i \in 1..Len(batch) :
            batch[i].url = u /\ \A j \in (i+1)..Len(batch) : batch[j].url # u]

\* C27: after any sequence of saves the product file holds exactly the
\* products of the most recent batch saved to it, and the products table
\* holds a row for exactly the urls of the most recent batch saved to it.
C27_SupersededWholesale ==
    /\ json_file # NoFile =>
        /\ json_file.products = ToDicts(json_batch)
        /\ json_file.total_products = Len(json_batch)
    /\ db_ts \in Times => { r.url : r \in table } = UrlsOf(db_batch)

\* C28: the table never holds two rows with one url; after a committed save
\* the row of every url of the batch carries the values of the last product
\* of the batch with that url and the scraped_at of the call, and a save
\* leaves the rows of all other urls as they were.
C28_UpsertByUrl ==
    /\ [](/\ \A r1, r2 \in table : r1.url = r2.url => r1 = r2
          /\ db_ts \in Times =>
                \A u \in UrlsOf(db_batch) :
                    Row(LastWith(db_batch, u), db_ts) \in table)
    /\ [][\A u \in Urls \ UrlsOf(db_batch') :
            { r \in table' : r.url = u } = { r \in table : r.url = u }]_vars

\* a batch that repeats a url was saved after a batch with another url: the
\* table holds the older row with its own scraped_at, and one row for the
\* repeated url with the values of its last occurrence
C28_Witness ==
    /\ db_ts = "t2"
    /\ Len(db_batch) = 2
    /\ db_batch[1].url = "u1" /\ db_batch[2].url = "u1"
    /\ db_batch[1].name = "n1" /\ db_batch[2].name = "n2"
    /\ Cardinality(table) = 2
    /\ \E r \in table : r.url = "u1" /\ r.name = "n2" /\ r.scraped_at = "t2"
    /\ \E r \in table : r.url = "u2" /\ r.scraped_at = "t1"

====
